---- MODULE Spec2Model ----
(***************************************************************************)
(* Model of the rutube-downloader acquisition pipeline:                    *)
(*   - rutube_downloader.py   download_rutube_video / download_video       *)
(*   - services/video_service.py   VideoService                            *)
(*   - routes/video.py        the status channel and the artifact routes   *)
(*                                                                         *)
(* Strings are sequences of one-character strings, so that suffix tests,   *)
(* case folding and substring search are computed as the code computes     *)
(* them.  A progress value p is stored as the integer p * Scale, which is  *)
(* exact for every quotient i / N with N <= MaxSegs.                       *)
(***************************************************************************)
EXTENDS Integers, Sequences, FiniteSets, TLC

\* ------------------------------------------------------------------ bounds
\* Largest number of segments a parsed playlist holds in the model.
MaxSegs == 3

\* get_file_unused_ttl_seconds(): the configured time-to-live, in clock ticks.
TtlSeconds == 1

\* The clock of the model stops one tick after the time-to-live has passed.
MaxTime == TtlSeconds + 1

\* Requests of /file/{filename} that can be in flight at once.
MaxReq == 1

\* ----------------------------------------------------------- text helpers
Ext == <<".", "m", "p", "4">>

VideoMp4 == <<"v", "i", "d", "e", "o">> \o Ext

\* str.lower() on the characters the model uses.
LowerChar(c) ==
    CASE c = "A" -> "a"
      [] c = "V" -> "v"
      [] c = "M" -> "m"
      [] c = "P" -> "p"
      [] OTHER -> c

Lower(s) == [k \in 1..Len(s) |-> LowerChar(s[k])]

\* s.endswith(suf)
EndsWith(s, suf) ==
    /\ Len(s) >= Len(suf)
    /\ SubSeq(s, Len(s) - Len(suf) + 1, Len(s)) = suf

\* sub in s
Contains(s, sub) ==
    \E k \in 0..(Len(s) - Len(sub)) : SubSeq(s, k + 1, k + Len(sub)) = sub

\* re.sub(r'[<>:"/\\|?*]', '', name)
IllegalChars == {"<", ">", ":", "\"", "/", "\\", "|", "?", "*"}

\* The name with every character kept.
KeepIllegal(s) == s

RemoveIllegal(s) == SelectSeq(s, LAMBDA c : c \notin IllegalChars)

RECURSIVE LStrip(_, _)
LStrip(s, cs) ==
    IF s # <<>> /\ Head(s) \in cs THEN LStrip(Tail(s), cs) ELSE s

RECURSIVE RStrip(_, _)
RStrip(s, cs) ==
    IF s # <<>> /\ s[Len(s)] \in cs THEN RStrip(SubSeq(s, 1, Len(s) - 1), cs) ELSE s

\* str.strip(chars)
Strip(s, cs) == RStrip(LStrip(s, cs), cs)

Whitespace == {" "}

\* Decimal digits of a counter, as f"{counter}" prints it.
DigitChar(d) ==
    CASE d = 0 -> "0" [] d = 1 -> "1" [] d = 2 -> "2" [] d = 3 -> "3"
      [] d = 4 -> "4" [] d = 5 -> "5" [] d = 6 -> "6" [] d = 7 -> "7"
      [] d = 8 -> "8" [] OTHER -> "9"

RECURSIVE Decimal(_)
Decimal(n) ==
    IF n < 10 THEN <<DigitChar(n)>>
    ELSE Decimal(n \div 10) \o <<DigitChar(n % 10)>>

\* ------------------------------------------------- VideoService: the names
MaxNameLen == 200

\* The name cleaned without its suffix being taken off first.
KeepSuffix(filename) == Strip(RemoveIllegal(filename), {".", " "})

\* VideoService._sanitize_filename; <<>> stands for the None it returns.
SanitizeFilename(filename) ==
    LET name0 == IF EndsWith(Lower(filename), Ext)
                 THEN SubSeq(filename, 1, Len(filename) - 4)
                 ELSE filename
        name1 == RemoveIllegal(name0)
        name2 == Strip(name1, {".", " "})
    IN  IF name2 = <<>> THEN <<>>
        ELSE IF Len(name2) > MaxNameLen THEN SubSeq(name2, 1, MaxNameLen)
        ELSE name2

\* download_and_get_path: the final file name of a requested name
\* (<<>> stands for a missing file_name).
FinalFilename(fname) ==
    IF fname # <<>> /\ Strip(fname, Whitespace) # <<>>
    THEN LET sanitized == SanitizeFilename(Strip(fname, Whitespace))
         IN  IF sanitized # <<>> THEN sanitized \o Ext ELSE VideoMp4
    ELSE VideoMp4

\* Path.stem of a name that ends in .mp4
Stem(name) == SubSeq(name, 1, Len(name) - Len(Ext))

\* download_and_get_path: the collision loop
\*   counter = 1; while final_path.exists(): final_path = stem_counter.mp4
\* The first suffixed name taken without looking whether a file has it.
FirstSuffix(existing, stem, counter) ==
    stem \o <<"_">> \o Decimal(counter) \o Ext

RECURSIVE NextFree(_, _, _)
NextFree(existing, stem, counter) ==
    LET cand == stem \o <<"_">> \o Decimal(counter) \o Ext
    IN  IF cand \in existing THEN NextFree(existing, stem, counter + 1) ELSE cand

\* The requested name taken as it is, whether or not a file has it.
TakeRequestedName(existing, fname) == fname

ResolveFinalPath(existing, fname) ==
    IF fname \in existing THEN NextFree(existing, Stem(fname), 1) ELSE fname

\* ------------------------------------------------------------- progress
RECURSIVE Fact(_)
Fact(n) == IF n <= 1 THEN 1 ELSE n * Fact(n - 1)

Scale == Fact(MaxSegs)

\* A progress value: <<>> is None, <<p>> is the number p / Scale.
NoProgress == <<>>

Pct(p) == <<p * Scale>>

\* The progress counted from the slots before the current one.
ProgressOfEarlier(k, n) == <<20 * Scale + ((k - 1) * 60 * Scale) \div n>>

\* 20 + (i / len(segments)) * 60
DownloadProgress(k, n) == <<20 * Scale + (k * 60 * Scale) \div n>>

\* 80 + (idx / len(downloaded_segments)) * 15
MergeProgress(k, n) == <<80 * Scale + (k * 15 * Scale) \div n>>

Event(status, progress) == [status |-> status, progress |-> progress]

\* The per-slot merge event sent under the download phase's status.
MergeEventAsDownloading(k, n) == Event("downloading", MergeProgress(k, n))

\* download_video: the event sent after the idx-th slot was appended
MergeEvent(k, n) == Event("merging", MergeProgress(k, n))

\* The slot put in front of the list: the newest completion is merged first.
DownloadedNewestFirst(done, k) == <<k>> \o done

\* download_video: downloaded_segments.append(segment_path)
Downloaded(done, k) == Append(done, k)


\* ------------------------------------------------------------------ state
VARIABLES
    files,               \* download directory: file name -> [content, mtime]
    segdir,              \* <temp stem>_segments: [exists, slots: index -> bytes]
    now,                 \* wall clock, in seconds
    timers,              \* pending schedule_file_deletion tasks: [path, due]
    pc,                  \* position of the status-channel session
    url,                 \* message["url"]
    file_name,           \* message["file_name"] (<<>> when absent)
    final_filename,      \* download_and_get_path: final_filename
    temp_path,           \* download_and_get_path: temp_path (<<>> before)
    video_path,          \* download_and_get_path's result (<<>> before)
    events,              \* status events sent on the channel, in order
    segments,            \* len(segments) of the parsed playlist
    i,                   \* download loop: index of the slot being attempted
    downloaded_segments, \* download_video: downloaded_segments (slot indices)
    seg_result,          \* slot index -> "pending" | "running" | "existing"
                         \*               | "ok" | "failed"
    seg_body,            \* slot index -> bytes the origin served for it
    idx,                 \* merge loop: position in downloaded_segments
    dir0,                \* the directory as the session found it
    reqs,                \* HTTP requests being answered: id -> [pc, path]
    resp,                \* the response the last step sent, if it sent one
    consumed,            \* names served to the end by a GET, not re-created since
    connected,           \* the websocket of the status channel is still open
    sess,                \* concurrent sessions: id -> [pc, temp, final, path]
    env,                 \* os.environ: the two TTL variables
    ttl,                 \* what get_file_unused_ttl_seconds returned
    playlist,            \* the documents m3u8.load serves, and the playlist URL
    segment_urls,        \* what parse_m3u8_playlist returned
    scan,                \* a list_files / search_file_by_name call in progress
    dirs                 \* DOWNLOAD_PATH, and the names in it and in /tmp

sessionVars == <<pc, url, file_name, final_filename, temp_path, video_path,
                 events, segments, i, downloaded_segments, seg_result,
                 seg_body, idx, dir0, connected>>

routeVars == <<reqs, resp, consumed>>

vars == <<files, segdir, now, timers, pc, url, file_name, final_filename,
          temp_path, video_path, events, segments, i, downloaded_segments,
          seg_result, seg_body, idx, dir0, reqs, resp, consumed, connected,
          sess, env, ttl, playlist, segment_urls, scan, dirs>>

\* ------------------------------------------------------------ file system
File(content, mtime) == [content |-> content, mtime |-> mtime]

Exists(fs, name) == name \in DOMAIN fs

\* Path.unlink(missing_ok=True), and unlink guarded by exists()
Unlink(fs, name) == [n \in (DOMAIN fs) \ {name} |-> fs[n]]

\* open(path, "wb") / a completed write: the file holds content, mtime = t
WriteFile(fs, name, content, t) ==
    [n \in (DOMAIN fs) \cup {name} |->
        IF n = name THEN File(content, t) ELSE fs[n]]

\* Path.rename(dst) / shutil.copy2 / os.link: dst gets src's bytes and mtime
PutAs(fs, src, dst) ==
    [n \in (DOMAIN fs) \cup {dst} |-> IF n = dst THEN fs[src] ELSE fs[n]]

NoDir == [exists |-> FALSE, slots |-> <<>>]

SlotExists(d, k) == d.exists /\ k \in DOMAIN d.slots

\* a slot file written (wholly or in part) by download_segment
PutSlot(d, k, bytes) ==
    [exists |-> TRUE,
     slots  |-> [m \in (DOMAIN d.slots) \cup {k} |->
                    IF m = k THEN bytes ELSE d.slots[m]]]

\* ----------------------------------------------------------------- inputs
UrlMissing == ""
UrlForeign == "https://example.com/video/ab12/"
UrlNoVideo == "https://rutube.ru/channel/12/"
UrlVideo   == "https://rutube.ru/video/ab12/"

Urls == {UrlMissing, UrlForeign, UrlNoVideo, UrlVideo}

\* "rutube.ru" in url
HasRutubeDomain(u) == u \in {UrlNoVideo, UrlVideo}

\* extract_video_id: re.search(r'/video/([a-f0-9]+)', url); "" is None
extract_video_id(u) == IF u \in {UrlForeign, UrlVideo} THEN "ab12" ELSE ""

\* requested names of the model
FileNames == {<<>>, <<"A", "/", ".", "M", "P", "4">>}

\* tempfile.NamedTemporaryFile(suffix=".mp4", dir=download_dir) names
TempNames == {<<"t", "m", "p", "0">> \o Ext}

\* directories a session can find: empty, or holding earlier artifacts
Video1Mp4 == <<"v", "i", "d", "e", "o", "_", "1">> \o Ext

OldFile == File(<<9>>, 0)

InitialDirs ==
    { <<>>,
      [n \in {VideoMp4} |-> OldFile],
      [n \in {VideoMp4, Video1Mp4} |-> OldFile] }

\* a slot directory left behind by an aborted session with the same temp stem
StaleDirs == {NoDir, [exists |-> TRUE, slots |-> [m \in {1} |-> <<7>>]]}

\* bytes the origin can serve for segment k: an empty body or one chunk
Bodies(k) == {<<>>, <<k>>}

\* ------------------------------------------------------------------- Init
SessionStart ==
    /\ pc = "recv"
    /\ final_filename = <<>>
    /\ temp_path = <<>>
    /\ video_path = <<>>
    /\ events = <<>>
    /\ segments = 0
    /\ i = 0
    /\ downloaded_segments = <<>>
    /\ seg_result = [k \in 1..MaxSegs |-> "pending"]
    /\ seg_body = [k \in 1..MaxSegs |-> <<>>]
    /\ idx = 0
    /\ connected = TRUE

SessionInit ==
    /\ url \in Urls
    /\ file_name \in FileNames
    /\ SessionStart

\* a response: the route, the status code, the file name it names, the names
\* it lists, and the expired files the call removed
Response(op, status, name, listed, removed) ==
    [op |-> op, status |-> status, name |-> name, listed |-> listed,
     removed |-> removed]

IdleRequest == [pc |-> "idle", path |-> <<>>]

NoResponse == Response("none", 0, <<>>, {}, {})

\* the sessions that share the download directory in the concurrent model
Sessions == {"a", "b"}

IdleSession == [pc |-> "idle", temp |-> <<>>, final |-> <<>>, path |-> <<>>]

\* an environment variable: not set, or set to a text
Unset == [set |-> FALSE, text |-> ""]

EnvVar(text) == [set |-> TRUE, text |-> text]

\* a Python float: a number (here an integer), nan, or no value at all
Num(v) == [kind |-> "num", v |-> v]

NaN == [kind |-> "nan", v |-> 0]

NoFloat == [kind |-> "none", v |-> 0]

\* neither TTL variable is set and the TTL has not been read
\* DOWNLOAD_PATH is not set, and /tmp holds no artifact
DefaultDirs == [setting |-> "unset", tmp |-> {}, path |-> {}]

ConfigInit ==
    /\ env = [new |-> Unset, legacy |-> Unset]
    /\ ttl = NoFloat
    /\ dirs = DefaultDirs

\* nothing loaded yet.  A loaded playlist: the URL the parser began with, the
\* URL it was loaded from (m3u8_url), is_variant, the variants of a master
\* document, the index of the variant taken, and the URIs of the segments.
NoPlaylist == [master |-> <<>>, m3u8_url |-> <<>>, is_variant |-> FALSE,
               playlists |-> <<>>, best |-> 0, uris |-> <<>>]

ParserInit ==
    /\ playlist = NoPlaylist
    /\ segment_urls = <<>>

\* no listing or search is running.  A running one: its place in the loop,
\* the route, the search string, the paths glob has still to give, the path
\* at hand, the files put on the list and the expired files removed
IdleScan == [pc |-> "idle", op |-> "none", query |-> <<>>, todo |-> {},
             cur |-> <<>>, found |-> {}, removed |-> {}]

RoutesInit ==
    /\ reqs = [r \in 1..MaxReq |-> IdleRequest]
    /\ resp = NoResponse
    /\ consumed = {}
    /\ sess = [s \in Sessions |-> IdleSession]
    /\ scan = IdleScan
    /\ ParserInit

Init ==
    /\ files \in InitialDirs
    /\ dir0 = files
    /\ segdir \in StaleDirs
    /\ now = 0
    /\ timers = {}
    /\ SessionInit
    /\ RoutesInit
    /\ ConfigInit

\* websocket.send_json: the event goes out on the channel; on a closed
\* websocket the send raises, which status_callback swallows
Send(evs) == events' = IF connected THEN events \o evs ELSE events

Emit(status, progress) == Send(<<Event(status, progress)>>)

Emit2(s1, p1, s2, p2) == Send(<<Event(s1, p1), Event(s2, p2)>>)


\* --------------------------------------- routes/video.py: the status channel
\* What the session leaves alone in the shared directory state.
KeepClock == UNCHANGED <<now, dir0, reqs, resp, consumed, sess, env, ttl,
                         playlist, segment_urls, scan, dirs>>

KeepInputs == UNCHANGED <<url, file_name, connected>>

\* download_video_status: the two checks of the received message
RouteValidate ==
    /\ pc = "recv"
    /\ IF url = UrlMissing \/ ~HasRutubeDomain(url)
       THEN /\ Emit("error", NoProgress)
            /\ pc' = "done"
       ELSE /\ UNCHANGED events
            /\ pc' = "svc_start"
    /\ KeepClock /\ KeepInputs
    /\ UNCHANGED <<files, segdir, timers, final_filename, temp_path, video_path,
                   segments, i, downloaded_segments, seg_result, seg_body, idx>>

\* download_and_get_path up to the call of download_rutube_video: the final
\* name is fixed and an empty temporary file is created under a free name.
SvcCreateTemp ==
    /\ pc = "svc_start"
    /\ final_filename' = FinalFilename(file_name)
    /\ \E t \in TempNames \ DOMAIN files :
          /\ temp_path' = t
          /\ files' = WriteFile(files, t, <<>>, now)
    /\ pc' = "extract"
    /\ KeepClock /\ KeepInputs
    /\ UNCHANGED <<segdir, timers, video_path, events, segments, i,
                   downloaded_segments, seg_result, seg_body, idx>>

\* ------------------------------ rutube_downloader.py: download_rutube_video
ExtractVideoId ==
    /\ pc = "extract"
    /\ IF extract_video_id(url) = ""
       THEN /\ Emit("error", NoProgress)
            /\ pc' = "svc_fail"
       ELSE /\ Emit("initializing", Pct(0))
            /\ pc' = "open_page"
    /\ KeepClock /\ KeepInputs
    /\ UNCHANGED <<files, segdir, timers, final_filename, temp_path, video_path,
                   segments, i, downloaded_segments, seg_result, seg_body, idx>>

\* page.goto: a failure to load the page is only logged
OpenPage ==
    /\ pc = "open_page"
    /\ Emit("fetching_info", Pct(3))
    /\ pc' = "api"
    /\ KeepClock /\ KeepInputs
    /\ UNCHANGED <<files, segdir, timers, final_filename, temp_path, video_path,
                   segments, i, downloaded_segments, seg_result, seg_body, idx>>

\* get_video_info answers with the video's info or with None
GetVideoInfo ==
    /\ pc = "api"
    /\ \E answered \in BOOLEAN :
          IF answered
          THEN /\ Emit("fetching_info", Pct(5))
               /\ pc' = "have_info"
          ELSE /\ Emit2("fetching_info", Pct(5), "fetching_info", Pct(7))
               /\ pc' = "page_fallback"
    /\ KeepClock /\ KeepInputs
    /\ UNCHANGED <<files, segdir, timers, final_filename, temp_path, video_path,
                   segments, i, downloaded_segments, seg_result, seg_body, idx>>

\* extract_video_info_from_page answers with the info or with None
ExtractFromPage ==
    /\ pc = "page_fallback"
    /\ \E found \in BOOLEAN :
          IF found
          THEN /\ UNCHANGED events
               /\ pc' = "have_info"
          ELSE /\ Emit("error", NoProgress)
               /\ pc' = "svc_fail"
    /\ KeepClock /\ KeepInputs
    /\ UNCHANGED <<files, segdir, timers, final_filename, temp_path, video_path,
                   segments, i, downloaded_segments, seg_result, seg_body, idx>>

\* get_m3u8_url finds the playlist URL in the info or returns None
ResolvePlaylistUrl ==
    /\ pc = "have_info"
    /\ \E has_m3u8 \in BOOLEAN :
          IF has_m3u8
          THEN /\ Emit("fetching_info", Pct(10))
               /\ pc' = "parse"
          ELSE /\ Emit2("fetching_info", Pct(10), "error", NoProgress)
               /\ pc' = "svc_fail"
    /\ KeepClock /\ KeepInputs
    /\ UNCHANGED <<files, segdir, timers, final_filename, temp_path, video_path,
                   segments, i, downloaded_segments, seg_result, seg_body, idx>>

\* ------------------------------------ rutube_downloader.py: download_video
ParseStart ==
    /\ pc = "parse"
    /\ Emit("parsing", Pct(0))
    /\ pc' = "parsing"
    /\ KeepClock /\ KeepInputs
    /\ UNCHANGED <<files, segdir, timers, final_filename, temp_path, video_path,
                   segments, i, downloaded_segments, seg_result, seg_body, idx>>

\* parse_m3u8_playlist raises, or returns n segment URLs; with n >= 1 the slot
\* directory is made (mkdir(exist_ok=True)) and the download phase announced.
ParsePlaylist ==
    /\ pc = "parsing"
    /\ \/ /\ Emit("error", NoProgress)
          /\ pc' = "svc_fail"
          /\ UNCHANGED <<segments, i, segdir>>
       \/ /\ Emit2("parsing", Pct(10), "error", NoProgress)
          /\ pc' = "svc_fail"
          /\ UNCHANGED <<segments, i, segdir>>
       \/ \E n \in 1..MaxSegs :
             /\ segments' = n
             /\ i' = 1
             /\ segdir' = [segdir EXCEPT !.exists = TRUE]
             /\ Emit2("parsing", Pct(10), "downloading", Pct(20))
             /\ pc' = "fetch"
    /\ KeepClock /\ KeepInputs
    /\ UNCHANGED <<files, timers, final_filename, temp_path, video_path,
                   downloaded_segments, seg_result, seg_body, idx>>

\* download_segment(url, slot): the outcome and the bytes left at the slot.
\*   "ok"       the whole body was written, True is returned
\*   "neterr"   the request failed before the slot was opened, False
\*   "writeerr" the slot was opened and the write failed, False; the slot
\*              keeps what was written before the failure
SegmentOutcomes == {"ok", "neterr", "writeerr"}

SlotAfter(d, k, outcome, body) ==
    CASE outcome = "ok"       -> PutSlot(d, k, body)
      [] outcome = "writeerr" -> PutSlot(d, k, <<>>)
      [] OTHER                -> d

\* The loop left after its first pass.
LeaveAfterFirst(k, n) == "fetched"

\* `for i, segment_url in enumerate(segments, 1)`: the statements after the
\* loop are reached when the pass of the last slot has ended
LoopNext(k, n) == IF k = n THEN "fetched" ELSE "fetch"

\* one pass of the loop `for i, segment_url in enumerate(segments, 1)` up to
\* its first suspension: a slot that exists is taken as downloaded; otherwise
\* download_segment is started in a thread and the loop awaits its result
FetchSegment ==
    /\ pc = "fetch"
    /\ IF SlotExists(segdir, i)
       THEN /\ downloaded_segments' = Downloaded(downloaded_segments, i)
            /\ seg_result' = [seg_result EXCEPT ![i] = "existing"]
            /\ Emit("downloading", DownloadProgress(i, segments))
            /\ i' = i + 1
            /\ pc' = LoopNext(i, segments)
       ELSE /\ seg_result' = [seg_result EXCEPT ![i] = "running"]
            /\ pc' = "fetching"
            /\ UNCHANGED <<downloaded_segments, events, i>>
    /\ KeepClock /\ KeepInputs
    /\ UNCHANGED <<files, segdir, timers, final_filename, temp_path, video_path,
                   segments, seg_body, idx>>

\* the thread of download_segment returns: the awaited result arrives, the
\* progress event is sent and the loop goes on to the next slot
SegmentSettles ==
    /\ pc = "fetching"
    /\ \E outcome \in SegmentOutcomes, body \in Bodies(i) :
          /\ segdir' = SlotAfter(segdir, i, outcome, body)
          /\ seg_body' = [seg_body EXCEPT ![i] = body]
          /\ IF outcome = "ok"
             THEN /\ downloaded_segments' = Downloaded(downloaded_segments, i)
                  /\ seg_result' = [seg_result EXCEPT ![i] = "ok"]
             ELSE /\ UNCHANGED downloaded_segments
                  /\ seg_result' = [seg_result EXCEPT ![i] = "failed"]
    /\ Emit("downloading", DownloadProgress(i, segments))
    /\ i' = i + 1
    /\ pc' = LoopNext(i, segments)
    /\ KeepClock /\ KeepInputs
    /\ UNCHANGED <<files, timers, final_filename, temp_path, video_path,
                   segments, idx>>

\* after the loop: nothing downloaded is an error, else merging is announced
AfterFetch ==
    /\ pc = "fetched"
    /\ IF downloaded_segments = <<>>
       THEN /\ Emit("error", NoProgress)
            /\ pc' = "svc_fail"
       ELSE /\ Emit("merging", Pct(80))
            /\ pc' = "merge_open"
    /\ KeepClock /\ KeepInputs
    /\ UNCHANGED <<files, segdir, timers, final_filename, temp_path, video_path,
                   segments, i, downloaded_segments, seg_result, seg_body, idx>>

\* open(output_path, "wb") truncates the output, or raises
MergeOpen ==
    /\ pc = "merge_open"
    /\ \/ /\ files' = WriteFile(files, temp_path, <<>>, now)
          /\ idx' = 1
          /\ pc' = "merge"
          /\ UNCHANGED events
       \/ /\ Emit("error", NoProgress)
          /\ pc' = "svc_fail"
          /\ UNCHANGED <<files, idx>>
    /\ KeepClock /\ KeepInputs
    /\ UNCHANGED <<segdir, timers, final_filename, temp_path, video_path,
                   segments, i, downloaded_segments, seg_result, seg_body>>

\* one pass of `for idx, segment_path in enumerate(downloaded_segments, 1)`:
\* the slot's bytes are appended, or the read or the write raises
MergeSegment ==
    /\ pc = "merge"
    /\ \/ /\ files' = WriteFile(files, temp_path,
                         files[temp_path].content
                             \o segdir.slots[downloaded_segments[idx]], now)
          /\ Send(<<MergeEvent(idx, Len(downloaded_segments))>>)
          /\ idx' = idx + 1
          /\ pc' = IF idx = Len(downloaded_segments) THEN "cleanup" ELSE "merge"
       \/ /\ Emit("error", NoProgress)
          /\ pc' = "svc_fail"
          /\ UNCHANGED <<files, idx>>
    /\ KeepClock /\ KeepInputs
    /\ UNCHANGED <<segdir, timers, final_filename, temp_path, video_path,
                   segments, i, downloaded_segments, seg_result, seg_body>>

\* shutil.rmtree(temp_dir) inside the merge's try block: it removes the slot
\* directory and download_video returns True, or it raises
RemoveTempDir ==
    /\ pc = "cleanup"
    /\ \/ /\ segdir' = NoDir
          /\ pc' = "svc_check"
          /\ UNCHANGED events
       \/ /\ Emit("error", NoProgress)
          /\ pc' = "svc_fail"
          /\ UNCHANGED segdir
    /\ KeepClock /\ KeepInputs
    /\ UNCHANGED <<files, timers, final_filename, temp_path, video_path,
                   segments, i, downloaded_segments, seg_result, seg_body, idx>>


\* --------------------------- services/video_service.py: after the download
\* The failed session's temporary file left in the directory.
KeepFailedOutput(fs, path) == fs

\* if temp_path.exists(): temp_path.unlink()
RemoveFailedOutput(fs, path) == Unlink(fs, path)

\* download_rutube_video returned False: the temporary file is removed and
\* ValueError is raised, which download_video_status reports as an error.
SvcFailure ==
    /\ pc = "svc_fail"
    /\ files' = RemoveFailedOutput(files, temp_path)
    /\ Emit("error", NoProgress)
    /\ pc' = "done"
    /\ KeepClock /\ KeepInputs
    /\ UNCHANGED <<segdir, timers, final_filename, temp_path, video_path,
                   segments, i, downloaded_segments, seg_result, seg_body, idx>>

\* download_rutube_video returned True: a missing or empty output is removed
\* and reported as an error by ValueError
SvcCheckFile ==
    /\ pc = "svc_check"
    /\ IF ~Exists(files, temp_path) \/ files[temp_path].content = <<>>
       THEN /\ files' = Unlink(files, temp_path)
            /\ Emit("error", NoProgress)
            /\ pc' = "done"
       ELSE /\ UNCHANGED <<files, events>>
            /\ pc' = "finalize"
    /\ KeepClock /\ KeepInputs
    /\ UNCHANGED <<segdir, timers, final_filename, temp_path, video_path,
                   segments, i, downloaded_segments, seg_result, seg_body, idx>>

\* The ways finalization can end:
\*   "rename"     temp_path.rename(final_path) succeeded
\*   "copy"       rename raised, shutil.copy2 succeeded, temp_path.unlink too
\*   "copy_keep"  as "copy", but temp_path.unlink raised and was ignored
\*   "link"       rename and copy raised, os.link succeeded
\*   "temp"       all three raised: the temporary path is returned
FinalizeOutcomes == {"rename", "copy", "copy_keep", "link", "temp"}

FilesAfterFinalize(fs, src, dst, outcome) ==
    CASE outcome = "rename"    -> Unlink(PutAs(fs, src, dst), src)
      [] outcome = "copy"      -> Unlink(PutAs(fs, src, dst), src)
      [] outcome = "copy_keep" -> PutAs(fs, src, dst)
      [] outcome = "link"      -> PutAs(fs, src, dst)
      [] OTHER                 -> fs

\* The final path returned whether or not the file was placed there.
FinalPathAlways(src, dst, outcome) == dst

PathAfterFinalize(src, dst, outcome) == IF outcome = "temp" THEN src ELSE dst

\* download_and_get_path: collision resolution and the rename with its fallbacks
Finalize ==
    /\ pc = "finalize"
    /\ LET final_path == ResolveFinalPath(DOMAIN files, final_filename)
       IN  \E outcome \in FinalizeOutcomes :
              /\ files' = FilesAfterFinalize(files, temp_path, final_path, outcome)
              /\ video_path' = PathAfterFinalize(temp_path, final_path, outcome)
    /\ pc' = "route_done"
    /\ KeepClock /\ KeepInputs
    /\ UNCHANGED <<segdir, timers, final_filename, temp_path, events,
                   segments, i, downloaded_segments, seg_result, seg_body, idx>>

\* The deletion scheduled only once the completed event has gone out.
ScheduleIfDelivered(tms, path, t, open) ==
    IF open THEN tms \cup {[path |-> path, due |-> t + TtlSeconds]} ELSE tms

\* asyncio.create_task(schedule_file_deletion(video_path, ttl_seconds)): it
\* comes before the completed event is sent, so the state of the websocket
\* plays no part in it
ScheduleDeletion(tms, path, t, open) ==
    tms \cup {[path |-> path, due |-> t + TtlSeconds]}

\* download_video_status after download_and_get_path returned: the file must
\* exist, its deletion is scheduled, and the completed event is sent
RouteComplete ==
    /\ pc = "route_done"
    /\ IF ~Exists(files, video_path)
       THEN /\ Emit("error", NoProgress)
            /\ UNCHANGED timers
       ELSE /\ timers' = ScheduleDeletion(timers, video_path, now, connected)
            /\ Emit("completed", Pct(100))
    /\ pc' = "done"
    /\ KeepClock /\ KeepInputs
    /\ UNCHANGED <<files, segdir, final_filename, temp_path, video_path,
                   segments, i, downloaded_segments, seg_result, seg_body, idx>>

\* ------------------------------------------------ the session specification
Next ==
    \/ RouteValidate
    \/ SvcCreateTemp
    \/ ExtractVideoId
    \/ OpenPage
    \/ GetVideoInfo
    \/ ExtractFromPage
    \/ ResolvePlaylistUrl
    \/ ParseStart
    \/ ParsePlaylist
    \/ FetchSegment
    \/ SegmentSettles
    \/ AfterFetch
    \/ MergeOpen
    \/ MergeSegment
    \/ RemoveTempDir
    \/ SvcFailure
    \/ SvcCheckFile
    \/ Finalize
    \/ RouteComplete

Spec == Init /\ [][Next]_vars

\* The consumer of the status channel goes away while the session runs.
Disconnect ==
    /\ connected
    /\ pc \notin {"recv", "done"}
    /\ connected' = FALSE
    /\ UNCHANGED <<files, segdir, now, timers, pc, url, file_name,
                   final_filename, temp_path, video_path, events, segments, i,
                   downloaded_segments, seg_result, seg_body, idx, dir0, reqs,
                   resp, consumed, sess, env, ttl, playlist, segment_urls,
                   scan, dirs>>

DetachedNext == Next \/ Disconnect

SpecDetached == Init /\ [][DetachedNext]_vars

\* A session is never left waiting for ever: every request of the session has
\* a timeout and the server's event loop resumes the coroutine.
SpecFair == Spec /\ WF_vars(Next)


\* ------------------------------------- routes/video.py: the artifact routes
KeepSingle == UNCHANGED <<segdir, pc, url, file_name, final_filename, temp_path,
                          video_path, events, segments, i, downloaded_segments,
                          seg_result, seg_body, idx, dir0, connected, env, ttl,
                          playlist, segment_urls, scan, dirs>>

KeepSession == KeepSingle /\ UNCHANGED sess

\* requested names and search strings of the artifact-route model
RouteFileNames == {<<>>}

Queries == {<<"V", "I", "D">>, <<"_", "1">>}

\* the artifact names of the artifact-route model: the default name and the
\* first name the collision loop gives
ArtifactNames == {VideoMp4, Video1Mp4}

\* the body of a finalized artifact
ArtifactBytes == <<1>>

\* A file counted as expired as soon as its age reaches the time-to-live.
ExpiredAtTtl(fs, t, name) == t - fs[name].mtime >= TtlSeconds

\* file_age > ttl_seconds, with file_age = current_time - st_mtime
Expired(fs, t, name) == t - fs[name].mtime > TtlSeconds

\* filename_lower in path.name.lower()
Matches(name, query) == Contains(Lower(name), Lower(query))

\* the clock advances; a deletion timer that is due runs before it does
Tick ==
    /\ now < MaxTime
    /\ \A tm \in timers : tm.due > now
    /\ now' = now + 1
    /\ resp' = NoResponse
    /\ UNCHANGED <<files, timers, reqs, consumed>>
    /\ KeepSession

\* A session ends successfully: download_and_get_path renames its output to
\* the first free final name and download_video_status schedules its deletion.
\* (Sessions end while the clock of the model can still reach the timer's due
\* time.)
SessionFinalizes ==
    /\ now + TtlSeconds <= MaxTime
    /\ \E fname \in RouteFileNames :
          LET final_path == ResolveFinalPath(DOMAIN files, FinalFilename(fname))
          IN  /\ final_path \in ArtifactNames
              /\ files' = WriteFile(files, final_path, ArtifactBytes, now)
              /\ timers' = timers \cup {[path |-> final_path, due |-> now + TtlSeconds]}
              /\ consumed' = consumed \ {final_path}
    /\ resp' = NoResponse
    /\ UNCHANGED <<now, reqs>>
    /\ KeepSession

\* schedule_file_deletion after its sleep: the file is removed if it is there
TimerFires ==
    /\ \E tm \in timers :
          /\ tm.due <= now
          /\ files' = Unlink(files, tm.path)
          /\ timers' = timers \ {tm}
    /\ resp' = NoResponse
    /\ UNCHANGED <<now, reqs, consumed>>
    /\ KeepSession

\* list_files: expired files are removed, the others are listed
ListFiles ==
    /\ LET old == {n \in DOMAIN files : Expired(files, now, n)}
       IN  /\ files' = [n \in (DOMAIN files) \ old |-> files[n]]
           /\ resp' = Response("list", 200, <<>>, (DOMAIN files) \ old, old)
    /\ UNCHANGED <<now, timers, reqs, consumed>>
    /\ KeepSession

\* search_file_by_name: of the files whose name contains the query, expired
\* ones are removed and the others are listed
SearchFilesFor(query) ==
    /\ LET hits == {n \in DOMAIN files : Matches(n, query)}
           old  == {n \in hits : Expired(files, now, n)}
       IN  /\ files' = [n \in (DOMAIN files) \ old |-> files[n]]
           /\ resp' = Response("search", 200, query, hits \ old, old)
    /\ UNCHANGED <<now, timers, reqs, consumed>>
    /\ KeepSession

SearchFiles == \E query \in Queries : SearchFilesFor(query)

\* get_downloaded_file, search=True: the paths the loop can stop at (the
\* directory order is arbitrary): matching files that have not expired
SearchCandidates(fs, t, filename) ==
    {n \in DOMAIN fs : Matches(n, filename) /\ ~Expired(fs, t, n)}

\* get_downloaded_file, search=False: an expired file is removed on sight
FilesAfterLookup(fs, t, filename, search) ==
    IF ~search /\ Exists(fs, filename) /\ Expired(fs, t, filename)
    THEN Unlink(fs, filename)
    ELSE fs

\* get_downloaded_file, search=False: the file is there and has not expired
ExactFound(fs, t, filename) == Exists(fs, filename) /\ ~Expired(fs, t, filename)

\* The request method not looked at: every request is served as a GET.
NeverProbe(method) == FALSE

\* get_downloaded_file: a HEAD request answers without registering the deletion
IsProbe(method) == method = "HEAD"

Methods == {"GET", "HEAD"}

\* get_downloaded_file: the handler, up to the FileResponse it returns; a new
\* request takes the first free request id
FileRequest(r, filename, search, method) ==
    /\ reqs[r].pc = "idle"
    /\ \A q \in 1..(r - 1) : reqs[q].pc # "idle"
    /\ files' = FilesAfterLookup(files, now, filename, search)
    /\ \/ /\ IF search THEN SearchCandidates(files, now, filename) = {}
                       ELSE ~ExactFound(files, now, filename)
          /\ resp' = Response(method, 404, filename, {},
                              (DOMAIN files) \ DOMAIN files')
          /\ UNCHANGED reqs
       \/ \E path \in (IF search THEN SearchCandidates(files, now, filename)
                                 ELSE {filename}) :
             /\ search \/ ExactFound(files, now, filename)
             /\ IF IsProbe(method)
                THEN /\ resp' = Response(method, 200, path, {}, {})
                     /\ UNCHANGED reqs
                ELSE /\ reqs' = [reqs EXCEPT ![r] = [pc |-> "serving", path |-> path]]
                     /\ resp' = NoResponse
    /\ UNCHANGED <<now, timers, consumed>>
    /\ KeepSession

FileRequests ==
    \E r \in DOMAIN reqs, method \in Methods :
        \/ \E filename \in ArtifactNames : FileRequest(r, filename, FALSE, method)
        \/ \E filename \in Queries : FileRequest(r, filename, TRUE, method)

\* FileResponse sends the file: its bytes go out, or the file has vanished
\* since the handler returned and the response is aborted
ServeFile ==
    /\ \E r \in DOMAIN reqs :
          /\ reqs[r].pc = "serving"
          /\ IF Exists(files, reqs[r].path)
             THEN /\ resp' = Response("GET", 200, reqs[r].path, {}, {})
                  /\ reqs' = [reqs EXCEPT ![r].pc = "background"]
             ELSE /\ resp' = Response("GET", 500, reqs[r].path, {}, {})
                  /\ reqs' = [reqs EXCEPT ![r] = IdleRequest]
    /\ UNCHANGED <<files, now, timers, consumed>>
    /\ KeepSession

\* The served file left in the directory.
KeepServed(fs, path) == fs

\* background_tasks: file_path.unlink(missing_ok=True) after the response
DeleteServed(fs, path) == Unlink(fs, path)

AfterResponse ==
    /\ \E r \in DOMAIN reqs :
          /\ reqs[r].pc = "background"
          /\ files' = DeleteServed(files, reqs[r].path)
          /\ consumed' = consumed \cup {reqs[r].path}
          /\ reqs' = [reqs EXCEPT ![r] = IdleRequest]
    /\ resp' = NoResponse
    /\ UNCHANGED <<now, timers>>
    /\ KeepSession

\* The directory can hold artifacts of an earlier run of the server, whose
\* deletion timers were lost with it.
RoutesSpecInit ==
    /\ files \in InitialDirs
    /\ dir0 = files
    /\ segdir = NoDir
    /\ now = 0
    /\ timers = {}
    /\ SessionInit
    /\ url = UrlMissing
    /\ file_name = <<>>
    /\ RoutesInit
    /\ ConfigInit

RoutesNext ==
    \/ Tick
    \/ SessionFinalizes
    \/ TimerFires
    \/ ListFiles
    \/ SearchFiles
    \/ FileRequests
    \/ ServeFile
    \/ AfterResponse

SpecRoutes == RoutesSpecInit /\ [][RoutesNext]_vars

\* ---------------------- routes/video.py: /download and the deletion timers
\* download_video (GET /download): download_and_get_path finalizes the
\* artifact and a StreamingResponse over create_stream_generator is returned;
\* no deletion is scheduled for the file
HttpDownload ==
    /\ now + TtlSeconds <= MaxTime
    /\ \E r \in 1..MaxReq, fname \in RouteFileNames :
          LET final_path == ResolveFinalPath(DOMAIN files, FinalFilename(fname))
          IN  /\ reqs[r].pc = "idle"
              /\ \A q \in 1..(r - 1) : reqs[q].pc # "idle"
              /\ final_path \in ArtifactNames
              /\ files' = WriteFile(files, final_path, ArtifactBytes, now)
              /\ consumed' = consumed \ {final_path}
              /\ reqs' = [reqs EXCEPT ![r] = [pc |-> "stream", path |-> final_path]]
    /\ resp' = NoResponse
    /\ UNCHANGED <<now, timers>>
    /\ KeepSession

\* create_stream_generator runs: the chunks go out and its `finally` removes
\* the file
StreamBody ==
    /\ \E r \in 1..MaxReq :
          /\ reqs[r].pc = "stream"
          /\ resp' = Response("download",
                              IF Exists(files, reqs[r].path) THEN 200 ELSE 500,
                              reqs[r].path, {}, {})
          /\ files' = Unlink(files, reqs[r].path)
          /\ reqs' = [reqs EXCEPT ![r] = IdleRequest]
    /\ UNCHANGED <<now, timers, consumed>>
    /\ KeepSession

\* The client has gone before the body is sent: the generator is dropped
\* without having been started, so its `finally` never runs
StreamDropped ==
    /\ \E r \in 1..MaxReq :
          /\ reqs[r].pc = "stream"
          /\ reqs' = [reqs EXCEPT ![r] = IdleRequest]
    /\ resp' = NoResponse
    /\ UNCHANGED <<files, now, timers, consumed>>
    /\ KeepSession

\* Sessions and timers alone: no listing, search or retrieval is ever invoked
TimersNext ==
    \/ Tick
    \/ SessionFinalizes
    \/ HttpDownload
    \/ StreamBody
    \/ StreamDropped
    \/ TimerFires

\* The clock advances, a timer whose sleep is over runs, and a response that
\* was returned is sent or dropped.
SpecTimers ==
    /\ RoutesSpecInit
    /\ [][TimersNext]_vars
    /\ WF_vars(Tick)
    /\ WF_vars(TimerFires)
    /\ WF_vars(StreamBody \/ StreamDropped)

\* ------------------------------------------------- properties of a session
LastEvent == events[Len(events)]

\* the slots of the playlist, and those whose fetch returned True
Slots == 1..segments

FetchedOk == {k \in Slots : seg_result[k] = "ok"}

\* every slot was attempted by download_segment in this session
AllAttempted == \A k \in Slots : seg_result[k] \in {"ok", "failed"}

\* the bytes served for the slots of S, concatenated in ascending index order
RECURSIVE ConcatUpTo(_, _)
ConcatUpTo(S, n) ==
    IF n = 0 THEN <<>>
    ELSE ConcatUpTo(S, n - 1) \o (IF n \in S THEN seg_body[n] ELSE <<>>)

ExpectedArtifact == ConcatUpTo(FetchedOk, segments)

\* C1: when all N >= 1 segments of the playlist were fetched successfully,
\* the output file that download_video has merged holds the segments' bytes
\* concatenated in ascending index order.
C1_MergedInIndexOrder ==
    (pc \in {"cleanup", "svc_check"} /\ segments >= 1 /\ FetchedOk = Slots)
        => /\ Exists(files, temp_path)
           /\ files[temp_path].content = ExpectedArtifact

C1_Witness ==
    /\ pc = "svc_check"
    /\ segments >= 2
    /\ FetchedOk = Slots
    /\ files[temp_path].content = <<1, 2>>

\* the merge loop appended every downloaded slot without an I/O error
MergeRanToEnd == idx = Len(downloaded_segments) + 1

\* C2: a session in which K of the N fetches succeed, 1 <= K < N, ends with
\* `completed` as its last event and with an artifact that holds exactly the
\* successful segments in index order.  (An I/O error of the merge itself is
\* the MergeError that ends a session in `error`; the claim is stated for the
\* sessions whose merge loop ran to its end.)
C2_PartialCompletes ==
    (/\ pc = "done"
     /\ segments >= 2
     /\ AllAttempted
     /\ FetchedOk # {}
     /\ FetchedOk # Slots
     /\ MergeRanToEnd)
        => /\ LastEvent.status = "completed"
           /\ Exists(files, video_path)
           /\ files[video_path].content = ExpectedArtifact

\* C3: a session in which every one of the N fetches failed ends in `error`,
\* and neither its temporary output nor a finalized file is in the download
\* directory afterwards: the directory is as the session found it.
C3_NoneFetchedIsError ==
    (/\ pc = "done"
     /\ segments >= 1
     /\ \A k \in Slots : seg_result[k] = "failed")
        => /\ LastEvent.status = "error"
           /\ ~Exists(files, temp_path)
           /\ video_path = <<>>
           /\ files = dir0

C3_Witness ==
    /\ pc = "done"
    /\ segments >= 2
    /\ \A k \in Slots : seg_result[k] = "failed"
    /\ \E k \in Slots : SlotExists(segdir, k)

Terminal(e) == e.status \in {"completed", "error"}

\* C4: a terminal event is the last event of its session, so a session sends
\* exactly one of them, and a finished session has sent one.
C4_OneTerminalEvent ==
    /\ \A j \in 1..Len(events) : Terminal(events[j]) => j = Len(events)
    /\ pc = "done" => (events # <<>> /\ Terminal(LastEvent))

\* C5: the progress values of a session's events never decrease.
C5_ProgressNonDecreasing ==
    \A j, k \in 1..Len(events) :
        (j < k /\ events[j].progress # NoProgress /\ events[k].progress # NoProgress)
            => events[j].progress[1] <= events[k].progress[1]

PhaseRank(status) ==
    CASE status = "initializing"  -> 1
      [] status = "fetching_info" -> 2
      [] status = "parsing"       -> 3
      [] status = "downloading"   -> 4
      [] status = "merging"       -> 5
      [] status = "completed"     -> 6
      [] OTHER                    -> 7

\* C6: along a session's events the phase never regresses, and nothing but
\* `error` follows `error`: initializing, fetching_info, parsing, downloading,
\* merging, completed, with error only at the end.
C6_PhaseNeverRegresses ==
    \A j, k \in 1..Len(events) :
        j < k => /\ PhaseRank(events[j].status) <= PhaseRank(events[k].status)
                 /\ events[j].status # "completed"

C6_Witness ==
    /\ pc = "done"
    /\ LastEvent.status = "completed"
    /\ segments >= 2
    /\ \E j \in 1..Len(events) : events[j].status = "merging"


\* ------------------------------------------ properties of the artifact routes
Age(fs, t, name) == t - fs[name].mtime

\* C7: once a GET of an artifact has been served to its end, and until a file
\* is created under that name again, a GET of that name answers 404, a GET by
\* substring never picks it, and no response carries it.
C7_SingleUse ==
    [][ /\ \A r \in 1..MaxReq, f \in consumed :
              /\ FileRequest(r, f, FALSE, "GET")
                    => (resp'.status = 404 /\ reqs' = reqs)
              /\ \A q \in Queries :
                    FileRequest(r, q, TRUE, "GET") => reqs'[r].path # f
        /\ ServeFile => (resp'.status = 200 => resp'.name \notin consumed)
      ]_vars

C7_Witness ==
    /\ resp.op = "GET"
    /\ resp.status = 404
    /\ resp.name \in consumed

\* C8: a HEAD probe of an artifact that exists and has not expired answers
\* 200, changes no file, registers no deletion, and leaves the artifact where
\* a GET of the same name finds it.
C8_ProbeKeepsFile ==
    [][ \A r \in 1..MaxReq :
          /\ \A f \in ArtifactNames :
                (/\ FileRequest(r, f, FALSE, "HEAD")
                 /\ Exists(files, f)
                 /\ Age(files, now, f) <= TtlSeconds)
                    => /\ resp' = Response("HEAD", 200, f, {}, {})
                       /\ files' = files
                       /\ reqs' = reqs
                       /\ ExactFound(files', now', f)
          /\ \A q \in Queries :
                (/\ FileRequest(r, q, TRUE, "HEAD")
                 /\ resp'.status = 200)
                    => /\ files' = files
                       /\ reqs' = reqs
                       /\ resp'.name \in SearchCandidates(files', now', q)
      ]_vars

C8_Witness ==
    /\ resp.op = "HEAD"
    /\ resp.status = 200
    /\ Exists(files, resp.name)
    /\ files[resp.name].mtime < now

C10_ExpiredRemovedOnSight ==
    [][ /\ ListFiles =>
              \A f \in DOMAIN files :
                  Age(files, now, f) > TtlSeconds => f \notin DOMAIN files'
        /\ \A q \in Queries :
              SearchFilesFor(q) =>
                  \A f \in DOMAIN files :
                      (Matches(f, q) /\ Age(files, now, f) > TtlSeconds)
                          => f \notin DOMAIN files'
        /\ \A r \in 1..MaxReq, m \in Methods :
              /\ \A f \in ArtifactNames :
                    (/\ FileRequest(r, f, FALSE, m)
                     /\ Exists(files, f)
                     /\ Age(files, now, f) > TtlSeconds)
                        => f \notin DOMAIN files'
              /\ \A q \in Queries :
                    (FileRequest(r, q, TRUE, m) /\ resp'.status = 404)
                        => \A f \in DOMAIN files :
                              (Matches(f, q) /\ Age(files, now, f) > TtlSeconds)
                                  => f \notin DOMAIN files'
      ]_vars


\* ------------------- concurrent sessions sharing the download directory
\* NamedTemporaryFile names the concurrent sessions can be given
SharedTempNames == TempNames \cup {<<"t", "m", "p", "1">> \o Ext}

\* the bytes a session's merge writes
SessionBytes(s) == IF s = "a" THEN <<1>> ELSE <<2>>

\* download_video: temp_dir = output_path.parent / f"{output_path.stem}_segments"
SegmentsDir(path) == Stem(path) \o <<"_", "s", "e", "g", "m", "e", "n", "t", "s">>

Running(s) == sess[s].pc \in {"running", "merged"}

\* download_and_get_path up to the call of download_rutube_video: the final
\* name is fixed and NamedTemporaryFile creates an empty file under a name
\* that no file of the directory has
ShStart(s) ==
    /\ sess[s].pc = "idle"
    /\ \E fname \in RouteFileNames, t \in SharedTempNames \ DOMAIN files :
          /\ files' = WriteFile(files, t, <<>>, now)
          /\ sess' = [sess EXCEPT ![s] = [pc |-> "running", temp |-> t,
                                          final |-> FinalFilename(fname),
                                          path |-> <<>>]]
    /\ resp' = NoResponse
    /\ UNCHANGED <<now, timers, reqs, consumed>>
    /\ KeepSingle

\* download_video's merge: open(output_path, "wb") and the slots written;
\* the session then awaits shutil.rmtree in a thread
ShMerge(s) ==
    /\ sess[s].pc = "running"
    /\ files' = WriteFile(files, sess[s].temp, SessionBytes(s), now)
    /\ sess' = [sess EXCEPT ![s].pc = "merged"]
    /\ resp' = NoResponse
    /\ UNCHANGED <<now, timers, reqs, consumed>>
    /\ KeepSingle

\* download_rutube_video returns False: the temporary file is removed
ShFail(s) ==
    /\ sess[s].pc = "running"
    /\ files' = RemoveFailedOutput(files, sess[s].temp)
    /\ sess' = [sess EXCEPT ![s].pc = "failed"]
    /\ resp' = NoResponse
    /\ UNCHANGED <<now, timers, reqs, consumed>>
    /\ KeepSingle

\* download_rutube_video returns True: from there to the scheduling of the
\* deletion the code has no suspension point.  A missing or empty output ends
\* the session; otherwise the output is finalized and its deletion scheduled.
ShFinish(s) ==
    /\ sess[s].pc = "merged"
    /\ IF ~Exists(files, sess[s].temp) \/ files[sess[s].temp].content = <<>>
       THEN /\ files' = Unlink(files, sess[s].temp)
            /\ sess' = [sess EXCEPT ![s].pc = "failed"]
            /\ UNCHANGED timers
       ELSE LET final_path == ResolveFinalPath(DOMAIN files, sess[s].final)
            IN  \E outcome \in FinalizeOutcomes :
                  LET path == PathAfterFinalize(sess[s].temp, final_path, outcome)
                  IN  /\ files' = FilesAfterFinalize(files, sess[s].temp,
                                                     final_path, outcome)
                      /\ sess' = [sess EXCEPT ![s].pc = "done", ![s].path = path]
                      /\ timers' = timers \cup
                             {[path |-> path, due |-> now + TtlSeconds]}
    /\ resp' = NoResponse
    /\ UNCHANGED <<now, reqs, consumed>>
    /\ KeepSingle

SharedNext ==
    \/ \E s \in Sessions : ShStart(s)
    \/ \E s \in Sessions : ShMerge(s)
    \/ \E s \in Sessions : ShFail(s)
    \/ \E s \in Sessions : ShFinish(s)
    \/ Tick
    \/ TimerFires
    \/ ListFiles
    \/ SearchFiles

SpecShared == RoutesSpecInit /\ [][SharedNext]_vars

\* C12: the finalize step of a session leaves every other file of the
\* directory in place with its content, whatever strategy it takes and
\* however the sessions that share the directory interleave.
C12_FinalizeKeepsOthers ==
    [][ \A s \in Sessions :
          ShFinish(s) =>
              \A f \in (DOMAIN files) \ {sess[s].temp} :
                  f \in DOMAIN files' /\ files'[f] = files[f]
      ]_vars

C12_Witness ==
    /\ \A s \in Sessions : sess[s].pc = "done" /\ sess[s].path # sess[s].temp
    /\ sess["a"].path # sess["b"].path
    /\ Exists(files, VideoMp4)
    /\ files[VideoMp4] = OldFile
    /\ \A s \in Sessions : Exists(files, sess[s].path)

\* C20: the temporary output files of two running sessions, and their
\* temporary segment directories, are distinct at every moment.
C20_TempPathsDistinct ==
    \A s, t \in Sessions :
        (s # t /\ Running(s) /\ Running(t))
            => /\ sess[s].temp # sess[t].temp
               /\ SegmentsDir(sess[s].temp) # SegmentsDir(sess[t].temp)

\* ----------------------------------------- properties of the deletion timers
\* C11: every artifact that a session has finalized is eventually removed from
\* the download directory, with no listing, search or retrieval taking place:
\* the deletion timer started at finalization removes it.
C11_EventuallyRemoved ==
    \A f \in ArtifactNames :
        (Exists(files, f) /\ files[f].content = ArtifactBytes)
            ~> ~Exists(files, f)

\* ------------------------------------------------ properties of finalization
\* the k-th name of the sequence name.mp4, name_1.mp4, name_2.mp4, ...
Candidate(name, k) ==
    IF k = 0 THEN name ELSE Stem(name) \o <<"_">> \o Decimal(k) \o Ext

\* C13: the final path that finalize places the artifact at is the first name
\* of the sequence name.mp4, name_1.mp4, name_2.mp4, ... that no file has:
\* it is free, and every earlier name of the sequence is taken.
C13_FirstFreeName ==
    [][ (Finalize /\ video_path' # temp_path) =>
            \E k \in 0..Cardinality(DOMAIN files) :
                /\ video_path' = Candidate(final_filename, k)
                /\ ~Exists(files, video_path')
                /\ \A j \in 0..(k - 1) :
                      Exists(files, Candidate(final_filename, j))
      ]_vars

C13_Witness ==
    /\ pc = "route_done"
    /\ video_path = Candidate(VideoMp4, 2)
    /\ Exists(files, VideoMp4)
    /\ Exists(files, Candidate(VideoMp4, 1))

C15_ForeignUrlRejected ==
    (url # UrlMissing /\ ~HasRutubeDomain(url))
        => /\ events = <<>>
           /\ pc \in {"recv", "done"}
           /\ temp_path = <<>>
           /\ files = dir0

\* ------------------------------------------- properties of the segment loop
\* C16: download_segment returns a result for every outcome and the loop goes
\* on: every slot the loop has passed was attempted by download_segment, once,
\* and a session that has left the loop has passed all N slots.
C16_EverySegmentAttempted ==
    /\ \A k \in Slots : k < i => seg_result[k] \in {"ok", "failed"}
    /\ (segments >= 1 /\ pc \notin {"fetch", "fetching"}) => i = segments + 1

\* C17: after download_segment returned False for a slot, no file is at the
\* slot's path.
C17_NoFileAfterFailure ==
    \A k \in Slots : seg_result[k] = "failed" => ~SlotExists(segdir, k)

\* the slots whose download_segment thread is running
InFlight == {k \in 1..MaxSegs : seg_result[k] = "running"}

\* C18: the segment fetches of a session overlap: while the fetch of a slot is
\* in flight and a later slot still has to be fetched, the session comes to
\* have two fetches in flight at the same time.
C18_FetchesOverlap ==
    (/\ pc = "fetching"
     /\ \E k \in (i + 1)..segments : ~SlotExists(segdir, k))
        ~> (Cardinality(InFlight) >= 2)

\* C19: once the consumer has gone, every later event is swallowed, and the
\* session is not cancelled: it can always take its next step, it passes all
\* N slots before it leaves the loop, and an artifact it has finalized is in
\* the download directory with its deletion timer scheduled.
C19_DetachedSessionRuns ==
    /\ [][~connected => events' = events]_vars
    /\ []((~connected /\ pc # "done") => ENABLED Next)
    /\ []((~connected /\ segments >= 1 /\ pc \notin {"fetch", "fetching"})
            => i = segments + 1)
    /\ []((~connected /\ pc = "done" /\ video_path # <<>>)
            => /\ Exists(files, video_path)
               /\ \E tm \in timers : tm.path = video_path)

C19_Witness ==
    /\ ~connected
    /\ pc = "done"
    /\ segments >= 2
    /\ events # <<>>
    /\ LastEvent.status = "fetching_info"
    /\ Exists(files, video_path)
    /\ \E tm \in timers : tm.path = video_path

\* ------------------------------ routes/video.py: get_file_unused_ttl_seconds
\* texts the TTL variables are set to in the model
EnvTexts == {"3", "5", "1", "0", "-2", "", "abc", "nan"}

EnvValues == {Unset} \cup {EnvVar(t) : t \in EnvTexts}

\* float(text): the number, nan, or ValueError ("error")
ParseFloat(text) ==
    CASE text = "3"   -> Num(3)
      [] text = "5"   -> Num(5)
      [] text = "1"   -> Num(1)
      [] text = "0"   -> Num(0)
      [] text = "-2"  -> Num(-2)
      [] text = "nan" -> NaN
      [] OTHER        -> [kind |-> "error", v |-> 0]

\* x <= 0 on floats: every comparison with nan is False
LeqZero(x) == x.kind = "num" /\ x.v <= 0

\* x * 60 on floats
Times60(x) == IF x.kind = "num" THEN Num(x.v * 60) ELSE x

\* os.getenv("FILE_UNUSED_TTL_MINUTES"), else os.getenv("FILE_TTL_MINUTES", "3")
SelectedText(e) ==
    IF e.new.set THEN e.new.text
    ELSE IF e.legacy.set THEN e.legacy.text
    ELSE "3"

\* get_file_unused_ttl_seconds
FileUnusedTtlSeconds(e) ==
    LET parsed == ParseFloat(SelectedText(e))
        ttl_minutes == IF parsed.kind = "error" THEN Num(3)
                       ELSE IF LeqZero(parsed) THEN Num(3)
                       ELSE parsed
    IN  Times60(ttl_minutes)

QuietInit ==
    /\ files = <<>>
    /\ dir0 = files
    /\ segdir = NoDir
    /\ now = 0
    /\ timers = {}
    /\ url = UrlMissing
    /\ SessionStart
    /\ RoutesInit

TtlInit ==
    /\ QuietInit
    /\ file_name = <<>>
    /\ env \in [new : EnvValues, legacy : EnvValues]
    /\ ttl = NoFloat
    /\ dirs = DefaultDirs

\* a route reads the TTL
ReadTtl ==
    /\ ttl = NoFloat
    /\ ttl' = FileUnusedTtlSeconds(env)
    /\ UNCHANGED <<files, segdir, now, timers, pc, url, file_name,
                   final_filename, temp_path, video_path, events, segments, i,
                   downloaded_segments, seg_result, seg_body, idx, dir0, reqs,
                   resp, consumed, connected, sess, env, playlist,
                   segment_urls, scan, dirs>>

SpecTtl == TtlInit /\ [][ReadTtl]_vars

\* the TTL the variables ask for, in minutes: the new variable when it is set,
\* the legacy one only when the new one is absent, 3 when neither is set
AskedText(e) ==
    IF e.new # Unset THEN e.new.text
    ELSE IF e.legacy # Unset THEN e.legacy.text
    ELSE "3"

\* C21: the TTL is 60 times the selected value, and 180 when that value is
\* not positive or cannot be parsed; it is always strictly positive.
C21_TtlSelection ==
    ttl # NoFloat =>
        /\ ttl.kind = "num" /\ ttl.v > 0
        /\ LET asked == ParseFloat(AskedText(env))
           IN  ttl.v = IF asked.kind = "num" /\ asked.v > 0
                       THEN 60 * asked.v ELSE 180

\* --------------------- services/video_service.py: the name of the artifact
\* Longest text in front of the suffix of a requested name of the model.
MaxPrefixLen == 3

RECURSIVE TextsUpTo(_)
TextsUpTo(n) ==
    IF n = 0 THEN {<<>>}
    ELSE LET shorter == TextsUpTo(n - 1)
         IN  shorter \cup {Append(t, c) : t \in shorter, c \in {"a", "/", ".", " "}}

\* a name longer than _sanitize_filename allows
LongName == [k \in 1..(MaxNameLen + 5) |-> IF k = 2 THEN "/" ELSE "a"] \o Ext

\* requested names: a short text, then no suffix, .mp4 or .MP4
RequestedNames ==
    {t \o suf : t \in TextsUpTo(MaxPrefixLen),
                suf \in {<<>>, Ext, <<".", "M", "P", "4">>}}
        \cup {LongName}

NamesInit ==
    /\ QuietInit
    /\ ConfigInit
    /\ file_name \in RequestedNames

\* download_and_get_path fixes the final file name of the requested name
ApplyName ==
    /\ pc = "recv"
    /\ final_filename' = FinalFilename(file_name)
    /\ pc' = "named"
    /\ UNCHANGED <<files, segdir, now, timers, url, file_name, temp_path,
                   video_path, events, segments, i, downloaded_segments,
                   seg_result, seg_body, idx, dir0, reqs, resp, consumed,
                   connected, sess, env, ttl, playlist, segment_urls, scan, dirs>>

SpecNames == NamesInit /\ [][ApplyName]_vars

\* the requested name holds an illegal character and ends in .mp4, in any case
IllegalWithSuffix(name) ==
    /\ \E k \in 1..Len(name) : name[k] \in IllegalChars
    /\ EndsWith(Lower(name), Ext)

\* the name without its last four characters, the illegal characters removed
CleanBase(name) == RemoveIllegal(SubSeq(name, 1, Len(name) - Len(Ext)))

DotOrSpace == {".", " "}

PastFanOut == segments >= 1

\* C23: after a session that ended in `error` at or after the fan-out, the
\* temporary segment directory and the slot files in it no longer exist.
C23_ErrorRemovesSegments ==
    (pc = "done" /\ PastFanOut /\ LastEvent.status = "error")
        => segdir = NoDir

\* the merge ran to its end and shutil.rmtree raised: the directory is left
CleanupFailed ==
    /\ downloaded_segments # <<>>
    /\ MergeRanToEnd
    /\ segdir.exists

\* C24: a failure of the removal of the segment directory after a successful
\* merge does not fail the session: it ends in `completed`, and the merged
\* artifact is kept and finalized.
C24_CleanupFailureCompletes ==
    (pc = "done" /\ CleanupFailed)
        => /\ LastEvent.status = "completed"
           /\ video_path # <<>>
           /\ Exists(files, video_path)

\* opening the output, or reading or appending a slot, raised
MergeFailed ==
    /\ downloaded_segments # <<>>
    /\ ~MergeRanToEnd

\* C25: an I/O failure during the merge ends the session in `error`, and the
\* partially written output is removed: no file of the session is left in
\* the download directory.
C25_MergeFailureIsError ==
    (pc = "done" /\ MergeFailed)
        => /\ LastEvent.status = "error"
           /\ ~Exists(files, temp_path)
           /\ video_path = <<>>
           /\ files = dir0

C25_Witness ==
    /\ pc = "done"
    /\ MergeFailed
    /\ idx = 2
    /\ Len(downloaded_segments) >= 2
    /\ ~Exists(files, temp_path)

\* C26: the slots that are merged are slots whose fetch reported success in
\* the current session.
C26_OnlyFetchedMerged ==
    \A j \in 1..Len(downloaded_segments) :
        seg_result[downloaded_segments[j]] = "ok"

\* slot k needs no more work of the fetch loop
Settled(k) == seg_result[k] \in {"ok", "failed", "existing"}

MergingAnnounced == \E j \in 1..Len(events) : events[j].status = "merging"

\* the session's output holds bytes
OutputWritten ==
    /\ temp_path # <<>>
    /\ Exists(files, temp_path)
    /\ files[temp_path].content # <<>>

\* C27: reassembly is a barrier: the `merging` event and the first write to
\* the output come only after all N fetches have settled, and no fetch is in
\* flight while the merge runs.
C27_MergeAfterAllSettled ==
    /\ (MergingAnnounced \/ pc \in {"merge_open", "merge", "cleanup"})
          => /\ \A k \in Slots : Settled(k)
             /\ InFlight = {}
    /\ OutputWritten => MergingAnnounced

C27_Witness ==
    /\ pc = "merge"
    /\ idx = 2
    /\ segments >= 2
    /\ OutputWritten
    /\ \E k \in Slots : seg_result[k] = "failed"

\* the events of the download phase, in the order they were sent
DownloadingEvents == SelectSeq(events, LAMBDA e : e.status = "downloading")

\* the fetch loop has ended
LoopEnded == segments >= 1 /\ i = segments + 1

\* C28: in the downloading phase exactly N progress events follow the initial
\* downloading event; the k-th has the value 20 + k/N * 60, k = 1..N in this
\* order, and the last is 80 whether or not fetches failed.
C28_ProgressPerSegment ==
    LET dl == DownloadingEvents
    IN  /\ segments >= 1 => /\ Len(dl) = i
                            /\ dl[1].progress = Pct(20)
        /\ \A k \in 1..(Len(dl) - 1) :
              /\ dl[k + 1].progress # NoProgress
              /\ dl[k + 1].progress[1] * segments
                    = (20 * segments + 60 * k) * Scale
        /\ LoopEnded => /\ Len(dl) = segments + 1
                        /\ dl[Len(dl)].progress = Pct(80)

C28_Witness ==
    /\ pc = "fetched"
    /\ segments >= 2
    /\ Len(DownloadingEvents) = segments + 1
    /\ \E k \in Slots : seg_result[k] = "failed"
    /\ \E k \in Slots : seg_result[k] = "ok"

\* ------------------------------ rutube_downloader.py: parse_m3u8_playlist
\* A URL is its host and the segments of its path: /v/m.m3u8 is <<"v",
\* "m.m3u8">>, /v/hi/ is <<"v", "hi", "">>, / is <<"">>, no path is <<>>.
Url(host, path) == [host |-> host, path |-> path]

\* A URI of a playlist entry: "rel" a relative path, "abs" a path from the
\* root of the host, "url" a full URL.
Ref(kind, host, path) == [kind |-> kind, host |-> host, path |-> path]

AllButLast(s) == IF s = <<>> THEN <<>> ELSE SubSeq(s, 1, Len(s) - 1)

\* urllib.parse.urljoin for references without dot segments and queries
Urljoin(base, ref) ==
    CASE ref.kind = "url" -> Url(ref.host, ref.path)
      [] ref.kind = "abs" -> Url(base.host, ref.path)
      [] OTHER            -> Url(base.host, AllButLast(base.path) \o ref.path)

\* parsed.path.rstrip('/'): the path without its trailing slashes
RECURSIVE RStripSlash(_)
RStripSlash(path) ==
    IF path # <<>> /\ path[Len(path)] = ""
    THEN RStripSlash(AllButLast(path))
    ELSE path

\* path_parts = parsed.path.rstrip('/').split('/'): split gives a leading ""
\* for the "/" the path begins with, and [""] for the empty string
PathParts(u) == <<"">> \o RStripSlash(u.path)

\* '/'.join(path_parts[:-1]) if len(path_parts) > 1 else '', as the segments
\* that follow its leading "/"
BasePath(u) ==
    LET path_parts == PathParts(u)
    IN  IF Len(path_parts) > 1
        THEN SubSeq(path_parts, 2, Len(path_parts) - 1)
        ELSE <<>>

\* base_url = f"{parsed.scheme}://{parsed.netloc}{base_path}/"
BaseUrl(u) == Url(u.host, BasePath(u) \o <<"">>)

\* stream_info of a variant: None, or an object with its bandwidth
NoStreamInfo == [present |-> FALSE, bandwidth |-> 0]

StreamInfo(b) == [present |-> TRUE, bandwidth |-> b]

\* key=lambda p: p.stream_info.bandwidth if p.stream_info else 0
BandwidthKey(p) == IF p.stream_info.present THEN p.stream_info.bandwidth ELSE 0

\* max(playlist.playlists, key=...): the first of the greatest entries, as an
\* index into the first n of them
RECURSIVE MaxIndex(_, _)
MaxIndex(ps, n) ==
    IF n = 1 THEN 1
    ELSE LET m == MaxIndex(ps, n - 1)
         IN  IF BandwidthKey(ps[n]) > BandwidthKey(ps[m]) THEN n ELSE m

PlaylistUrls ==
    {Url("h", <<"v", "m.m3u8">>), Url("h", <<"m.m3u8">>), Url("h", <<"v", "">>)}

VariantUris ==
    {Ref("rel", "h", <<"i.m3u8">>), Ref("rel", "h", <<"hi", "i.m3u8">>),
     Ref("rel", "h", <<"hi", "">>), Ref("abs", "h", <<"x", "i.m3u8">>),
     Ref("url", "c", <<"y", "i.m3u8">>)}

Variants ==
    [stream_info : {NoStreamInfo} \cup {StreamInfo(b) : b \in {1, 2}},
     uri : VariantUris]

SegmentUris ==
    {Ref("rel", "h", <<"s1.ts">>), Ref("rel", "h", <<"d", "s2.ts">>),
     Ref("abs", "h", <<"a", "s3.ts">>), Ref("url", "c", <<"s4.ts">>)}

\* the texts with one or two entries of S
OneOrTwo(S) == {<<a>> : a \in S} \cup {<<a, b>> : a \in S, b \in S}

ParseInit == QuietInit /\ ConfigInit /\ file_name = <<>>

KeepParse ==
    UNCHANGED <<files, segdir, now, timers, url, file_name, final_filename,
                temp_path, video_path, events, segments, i,
                downloaded_segments, seg_result, seg_body, idx, dir0, reqs,
                resp, consumed, connected, sess, env, ttl, scan, dirs>>

\* playlist = m3u8.load(m3u8_url): a master document or a media playlist
LoadPlaylist ==
    /\ pc = "recv"
    /\ \E u \in PlaylistUrls :
          \/ \E ps \in OneOrTwo(Variants) :
                playlist' = [master |-> u, m3u8_url |-> u, is_variant |-> TRUE,
                             playlists |-> ps, best |-> 0, uris |-> <<>>]
          \/ \E us \in OneOrTwo(SegmentUris) :
                playlist' = [master |-> u, m3u8_url |-> u, is_variant |-> FALSE,
                             playlists |-> <<>>, best |-> 0, uris |-> us]
    /\ pc' = "loaded"
    /\ UNCHANGED segment_urls
    /\ KeepParse

\* if playlist.is_variant: the best variant is taken, its URI joined to the
\* URL of the master, and the media playlist loaded from there
LoadVariant ==
    /\ pc = "loaded"
    /\ playlist.is_variant
    /\ LET best == MaxIndex(playlist.playlists, Len(playlist.playlists))
           variant_url == Urljoin(playlist.m3u8_url, playlist.playlists[best].uri)
       IN  \E us \in OneOrTwo(SegmentUris) :
              playlist' = [playlist EXCEPT !.m3u8_url = variant_url,
                                           !.best = best,
                                           !.uris = us]
    /\ pc' = "variant"
    /\ UNCHANGED segment_urls
    /\ KeepParse

\* the base URL is computed and every segment URI joined to it
ResolveSegments ==
    /\ \/ pc = "loaded" /\ ~playlist.is_variant
       \/ pc = "variant"
    /\ segment_urls' = [k \in 1..Len(playlist.uris) |->
                           Urljoin(BaseUrl(playlist.m3u8_url), playlist.uris[k])]
    /\ pc' = "parsed"
    /\ UNCHANGED playlist
    /\ KeepParse

SpecParse ==
    ParseInit /\ [][LoadPlaylist \/ LoadVariant \/ ResolveSegments]_vars

\* the first of the variants of greatest bandwidth was taken
BestIsFirstMax ==
    LET ps == playlist.playlists
        b  == playlist.best
    IN  /\ b \in 1..Len(ps)
        /\ \A j \in 1..Len(ps) : BandwidthKey(ps[j]) <= BandwidthKey(ps[b])
        /\ \A j \in 1..(b - 1) : BandwidthKey(ps[j]) < BandwidthKey(ps[b])

\* the directory of a URL: its path up to and with the last "/"
BaseDirectory(u) == Url(u.host, AllButLast(u.path) \o <<"">>)

\* C29: for a master playlist the parser takes the variant of greatest
\* bandwidth, the first of them on a tie, a variant without stream info
\* counting as 0; the variant's URI is resolved against the URL of the master;
\* the segment URLs are the segment URIs resolved against the base directory
\* of the variant's URL, one per segment entry in document order.
C29_BestVariantSegments ==
    (pc = "parsed" /\ playlist.is_variant)
        => /\ BestIsFirstMax
           /\ playlist.m3u8_url
                 = Urljoin(playlist.master, playlist.playlists[playlist.best].uri)
           /\ Len(segment_urls) = Len(playlist.uris)
           /\ \A k \in 1..Len(segment_urls) :
                 segment_urls[k]
                    = Urljoin(BaseDirectory(playlist.m3u8_url), playlist.uris[k])

\* ------------- routes/video.py: list_files and search_file_by_name, stepwise
\* The handlers run on the event loop without awaiting, so no other handler,
\* session or deletion timer runs between their steps.  The deletion that
\* get_downloaded_file registers, background_tasks.add_task(file_path.unlink),
\* is a plain function: it is run in a worker thread and can come between
\* any two system calls of a listing.
KeepSweep ==
    UNCHANGED <<segdir, now, timers, pc, url, file_name, final_filename,
                temp_path, video_path, events, segments, i,
                downloaded_segments, seg_result, seg_body, idx, dir0, reqs,
                consumed, connected, sess, env, ttl, playlist, segment_urls,
                dirs>>

\* download_dir.glob("*.mp4") reads the directory
ScanStart ==
    /\ scan.pc = "idle"
    /\ \E op \in {"list", "search"} :
          \E query \in (IF op = "list" THEN {<<>>} ELSE Queries) :
             scan' = [IdleScan EXCEPT !.pc = "next", !.op = op,
                                      !.query = query, !.todo = DOMAIN files]
    /\ resp' = NoResponse
    /\ UNCHANGED files
    /\ KeepSweep

\* the next path of the loop: `if not file_path.is_file(): continue`, and for
\* a search `if search_name_lower not in file_name_lower: continue`
ScanNext ==
    /\ scan.pc = "next"
    /\ \E n \in scan.todo :
          IF Exists(files, n) /\ (scan.op = "search" => Matches(n, scan.query))
          THEN scan' = [scan EXCEPT !.todo = @ \ {n}, !.cur = n, !.pc = "stat"]
          ELSE scan' = [scan EXCEPT !.todo = @ \ {n}]
    /\ UNCHANGED <<files, resp>>
    /\ KeepSweep

\* the error response of the `except Exception` around the loop
ScanError == Response(scan.op, 500, scan.query, {}, scan.removed)

\* file_age = current_time - file_path.stat().st_mtime: stat raises
\* FileNotFoundError for a file that is gone
ScanStat ==
    /\ scan.pc = "stat"
    /\ IF ~Exists(files, scan.cur)
       THEN /\ resp' = ScanError
            /\ scan' = IdleScan
       ELSE /\ scan' = [scan EXCEPT !.pc = IF Expired(files, now, scan.cur)
                                          THEN "unlink" ELSE "info"]
            /\ UNCHANGED resp
    /\ UNCHANGED files
    /\ KeepSweep

\* file_path.unlink(missing_ok=True) of an expired file; continue
ScanUnlink ==
    /\ scan.pc = "unlink"
    /\ files' = Unlink(files, scan.cur)
    /\ scan' = [scan EXCEPT !.pc = "next",
                            !.removed = IF Exists(files, scan.cur)
                                        THEN @ \cup {scan.cur} ELSE @]
    /\ UNCHANGED resp
    /\ KeepSweep

\* file_info = {..., file_path.stat().st_size, file_path.stat().st_mtime}
ScanInfo ==
    /\ scan.pc = "info"
    /\ IF ~Exists(files, scan.cur)
       THEN /\ resp' = ScanError
            /\ scan' = IdleScan
       ELSE /\ scan' = [scan EXCEPT !.pc = "next", !.found = @ \cup {scan.cur}]
            /\ UNCHANGED resp
    /\ UNCHANGED files
    /\ KeepSweep

\* the loop has ended: return {"files": files}
ScanEnd ==
    /\ scan.pc = "next"
    /\ scan.todo = {}
    /\ resp' = Response(scan.op, 200, scan.query, scan.found, scan.removed)
    /\ scan' = IdleScan
    /\ UNCHANGED files
    /\ KeepSweep

\* what runs on the event loop waits for the handler to return
SweepNext ==
    \/ scan.pc = "idle" /\ Tick
    \/ scan.pc = "idle" /\ SessionFinalizes
    \/ scan.pc = "idle" /\ TimerFires
    \/ scan.pc = "idle" /\ FileRequests
    \/ scan.pc = "idle" /\ ServeFile
    \/ AfterResponse
    \/ ScanStart
    \/ ScanNext
    \/ ScanStat
    \/ ScanUnlink
    \/ ScanInfo
    \/ ScanEnd

SpecSweep == RoutesSpecInit /\ [][SweepNext]_vars

\* the files a listing or a search for the query has to report
Reportable(fs, t, op, query) ==
    {n \in DOMAIN fs : /\ ~Expired(fs, t, n)
                       /\ op = "search" => Matches(n, query)}

\* C30: a listing or a search during which files are deleted by others still
\* returns successfully, and reports the unexpired files that remain.
C30_SweepToleratesDeletion ==
    resp.op \in {"list", "search"}
        => /\ resp.status = 200
           /\ Reportable(files, now, resp.op, resp.name) \subseteq resp.listed

\* --------------------------------- properties of the removal of artifacts
\* the files a step removes from the download directory
RemovedByStep == (DOMAIN files) \ (DOMAIN files')

\* the step is the deletion a consumer's GET registered
ConsumerDeletes ==
    \E r \in 1..MaxReq : reqs[r].pc = "background" /\ reqs'[r].pc = "idle"

\* C31: no artifact is removed by a TTL mechanism (a deletion timer, or the
\* sweep of a listing, a search or a lookup) before its own age has reached
\* the TTL: a timer started for an earlier artifact of the same name does not
\* delete a newer artifact that is younger than the TTL.
C31_TimerSparesNewer ==
    [][~ConsumerDeletes
          => \A n \in RemovedByStep : now - files[n].mtime >= TtlSeconds]_vars

\* the temporary outputs of the sessions that have not finalized yet
UnfinalizedOutputs == {sess[s].temp : s \in {q \in Sessions : Running(q)}}

\* C32: while a session has not finalized its artifact, its temporary output
\* is not listed by a listing or a search, not removed by their sweep, and
\* not served or deleted by a retrieval.
C32_TempOutputHidden ==
    \A t \in UnfinalizedOutputs :
        /\ t \notin resp.listed
        /\ t \notin resp.removed
        /\ resp.name # t
        /\ \A r \in 1..MaxReq : reqs[r].path # t

\* ------------------------- routes/video.py: retrievals that run side by side
\* the requests that can be open at a time
Readers == {1, 2}

\* the directory holds artifacts; no session runs and no timer is pending
GetsInit ==
    /\ files \in InitialDirs
    /\ dir0 = files
    /\ segdir = NoDir
    /\ now = 0
    /\ timers = {}
    /\ url = UrlMissing
    /\ file_name = <<>>
    /\ SessionStart
    /\ reqs = [r \in Readers |-> IdleRequest]
    /\ resp = NoResponse
    /\ consumed = {}
    /\ sess = [s \in Sessions |-> IdleSession]
    /\ scan = IdleScan
    /\ ParserInit
    /\ ConfigInit

\* get_downloaded_file returns its FileResponse, the response is sent and the
\* background task runs afterwards: the handlers of other requests run in
\* between
SpecGets ==
    GetsInit /\ [][FileRequests \/ ServeFile \/ AfterResponse \/ Tick]_vars

\* the request was sent the bytes of the file at its path
ServedBytes(r) == reqs[r].pc = "background"

\* C33: of the GET retrievals of one artifact name that run side by side, at
\* most one is served the bytes of the artifact.
C33_OneReaderServed ==
    \A r1, r2 \in DOMAIN reqs :
        (r1 # r2 /\ ServedBytes(r1) /\ ServedBytes(r2))
            => reqs[r1].path # reqs[r2].path

\* -------------------------------- properties of the place of the artifact
\* a file name that stays in the directory it is joined to
DirectChild(name) ==
    /\ name # <<>>
    /\ name # <<".">>
    /\ name # <<".", ".">>
    /\ \A k \in 1..Len(name) : name[k] \notin {"/", "\\"}

\* C35: for every requested name, the final file name, and the name the
\* collision loop gives when that name is taken, hold no path separator and
\* are neither `.` nor `..`: the final path is a direct child of the download
\* directory.
C35_FinalPathInDirectory ==
    pc = "named"
        => /\ DirectChild(final_filename)
           /\ DirectChild(ResolveFinalPath(DOMAIN files, final_filename))
           /\ DirectChild(ResolveFinalPath({final_filename}, final_filename))

C35_Witness ==
    /\ pc = "named"
    /\ file_name = <<".", ".", "/">>
    /\ final_filename = VideoMp4

\* ------------------------------------------- the download directory setting
\* DOWNLOAD_PATH: not set (or empty); a path that does not exist and can be
\* created; one that cannot be created; a path that is a plain file; a
\* directory that cannot be written to; a directory that can.
DirSettings == {"unset", "missing", "blocked", "file", "readonly", "writable"}

\* download_and_get_path: download_dir.mkdir(parents=True, exist_ok=True)
\* makes a missing directory
AfterMkdir(setting) == IF setting = "missing" THEN "writable" ELSE setting

\* download_and_get_path: the directory at DOWNLOAD_PATH when mkdir and the
\* write test (.write_test touched and unlinked) succeed, else /tmp
ServiceDirectory(setting) ==
    IF AfterMkdir(setting) = "writable" THEN "path" ELSE "tmp"

\* get_download_directory: the directory at DOWNLOAD_PATH when it exists and
\* is a directory, else /tmp
RouteDirectory(setting) ==
    IF setting \in {"readonly", "writable"} THEN "path" ELSE "tmp"

DirsInit ==
    /\ QuietInit
    /\ file_name = <<>>
    /\ env = [new |-> Unset, legacy |-> Unset]
    /\ ttl = NoFloat
    /\ dirs \in [setting : DirSettings, tmp : {{}}, path : {{}}]

KeepDirs ==
    UNCHANGED <<files, segdir, now, timers, pc, url, file_name, final_filename,
                temp_path, video_path, events, segments, i,
                downloaded_segments, seg_result, seg_body, idx, dir0, reqs,
                consumed, connected, sess, env, ttl, playlist, segment_urls,
                scan>>

\* a session runs to its end: the artifact is finalized in the directory
\* download_and_get_path took, and the completed event carries its name
DirSession ==
    /\ LET d == ServiceDirectory(dirs.setting)
           final_path == ResolveFinalPath(dirs[d], FinalFilename(<<>>))
       IN  /\ final_path \in ArtifactNames
           /\ dirs' = [dirs EXCEPT !.setting = AfterMkdir(@),
                                   ![d] = @ \cup {final_path}]
           /\ resp' = Response("completed", 200, final_path, {}, {})
    /\ KeepDirs

\* get_downloaded_file for a name: the file is looked for in the directory
\* get_download_directory gives; it is served, and removed unless the request
\* is a HEAD, or NotFound is returned
DirGet ==
    /\ \E filename \in ArtifactNames, method \in Methods :
          LET d == RouteDirectory(dirs.setting)
          IN  IF filename \in dirs[d]
              THEN /\ dirs' = IF IsProbe(method) THEN dirs
                              ELSE [dirs EXCEPT ![d] = @ \ {filename}]
                   /\ resp' = Response(method, 200, filename, {}, {})
              ELSE /\ resp' = Response(method, 404, filename, {}, {})
                   /\ UNCHANGED dirs
    /\ KeepDirs

\* list_files: the names in the directory get_download_directory gives
DirList ==
    /\ resp' = Response("list", 200, <<>>, dirs[RouteDirectory(dirs.setting)], {})
    /\ UNCHANGED dirs
    /\ KeepDirs

SpecDirs == DirsInit /\ [][DirSession \/ DirGet \/ DirList]_vars

\* the artifacts that were announced by a completed event and not consumed
Retrievable == dirs.tmp \cup dirs.path

\* C34: for every setting of the download directory, the directory a session
\* finalizes in is the directory the routes read: a GET for the file_id of a
\* completed event finds the artifact as long as it was not consumed.
C34_SameDirectory ==
    [][(resp'.op \in Methods /\ resp'.name \in Retrievable)
          => resp'.status = 200]_vars

====
